---- MODULE Spec2Model ----
(***************************************************************************)
(* FileTarInterpreter (internal/databases/postgres/tar_interpreter.go):    *)
(* extraction of archive entries to disk by concurrently running workers,  *)
(* and the UnwrapResult aggregate they record their outcomes in (Spec).    *)
(* FindPermanentBackups and IsPermanent of package internal                *)
(* (SpecFindPermanentBackups, SpecIsPermanent).                            *)
(*                                                                         *)
(* Paths are sequences of path components; the working directory is <<>>.  *)
(* File sizes are counted in pages; a file's data is a sequence of pages.  *)
(***************************************************************************)
EXTENDS Integers, Sequences, FiniteSets, TLC

\* ------------------------------------------------------------------------
\* Bounds
\* ------------------------------------------------------------------------

\* total number of Interpret calls in one behaviour
MaxCalls == 2

\* the worker units that call Interpret
Workers == {"w1", "w2"}

\* ------------------------------------------------------------------------
\* Values
\* ------------------------------------------------------------------------

NoOwner == "unlocked"
NoFile == [path |-> <<>>, flag |-> "none", open |-> FALSE, syncs |-> 0, closes |-> 0]
NoResult == [FileUnwrapResultType |-> "none", blockCount |-> 0]
NoUnwrapper == [kind |-> "none", isIncremented |-> FALSE, isPageFile |-> FALSE]
NoInfo == [kind |-> "none", data |-> <<>>, mode |-> 0, link |-> <<>>]
ErrNil == "nil"

\* permission bits used by the code: 0755 and 0666 (octal)
DirPerm == 493
FilePerm == 438

DBDataDirectory == <<"data">>

\* archive headers (tar.Header) with the payload that follows them:
\* Size is the logical size in pages, Blocks the pages an increment carries
TypeReg == "reg"
TypeDir == "dir"
TypeLink == "link"
TypeSymlink == "symlink"
TypeFifo == "fifo"

Hdr(name, type, mode, size, blocks) ==
    [Name |-> name, Typeflag |-> type, Mode |-> mode, Size |-> size, Blocks |-> blocks]

NoHeader == Hdr(<<>>, "none", 0, 0, {})

Entries ==
    { Hdr(<<"f">>, TypeReg, FilePerm, 2, {1}),
      Hdr(<<"g">>, TypeReg, FilePerm, 1, {1}),
      Hdr(<<"base", "x">>, TypeReg, FilePerm, 2, {1, 2}),
      Hdr(<<"base">>, TypeReg, FilePerm, 1, {1}),
      Hdr(<<"g">>, TypeDir, 960, 0, {}),
      Hdr(<<"h">>, TypeLink, FilePerm, 0, {}),
      Hdr(<<"s">>, TypeSymlink, FilePerm, 0, {}),
      Hdr(<<"p">>, TypeFifo, FilePerm, 0, {}) }

RegNames == { e.Name : e \in { x \in Entries : x.Typeflag = TypeReg } }

\* FilesToUnwrap: a Go map that may be nil
NilMap == [isNil |-> TRUE, m |-> <<>>]
MakeMap(f) == [isNil |-> FALSE, m |-> f]

Allowlists ==
    { NilMap,
      MakeMap(<<>>),
      MakeMap([n \in {<<"f">>, <<"g">>} |-> (n = <<"f">>)]) }

\* FilesMetadataDto.Files: name -> FileDescription
FilesMetadataFiles ==
    [n \in {<<"f">>, <<"g">>} |-> [IsIncremented |-> (n = <<"f">>)]]

\* ------------------------------------------------------------------------
\* File system
\* ------------------------------------------------------------------------

\* a node of the file system; ino names the file the node is a name of:
\* the names of one file (hard links) carry the same ino
DirNode(mode) == [kind |-> "dir", data |-> <<>>, mode |-> mode, link |-> <<>>, ino |-> <<>>]
FileNode(data, mode) == [kind |-> "file", data |-> data, mode |-> mode, link |-> <<>>, ino |-> <<>>]
SymlinkNode(text) == [kind |-> "symlink", data |-> <<>>, mode |-> 511, link |-> text, ino |-> <<>>]

Put(f, p, node) == [q \in (DOMAIN f) \cup {p} |-> IF q = p THEN node ELSE f[q]]

\* a new file, directory or link at p: it is a file of its own
Create(f, p, node) == Put(f, p, [node EXCEPT !.ino = p])

\* the names of the file that p names
NamesOfFile(f, p) == { q \in DOMAIN f : f[q].kind = f[p].kind /\ f[q].ino = f[p].ino }

\* writing through one name of a file shows through all its names
WriteData(f, p, data) ==
    [q \in DOMAIN f |-> IF q \in NamesOfFile(f, p) THEN [f[q] EXCEPT !.data = data] ELSE f[q]]

Parent(p) == SubSeq(p, 1, Len(p) - 1)

\* path.Join of two clean paths
Join(dir, name) == dir \o name

\* the number of symbolic links one path lookup follows before ELOOP
MaxSymlinks == 40

\* the lookup of the components rest from the directory cur, as the kernel
\* does it: a symbolic link is replaced by its text (relative to the
\* directory that holds it), an empty component is the trailing separator
\* and demands a directory before it; follow tells whether a link in the
\* last component is followed. last: only the last component is missing.
RECURSIVE Walk(_, _, _, _, _)
Walk(f, cur, rest, n, follow) ==
    IF rest = <<>> THEN [path |-> cur, err |-> ErrNil, last |-> FALSE]
    ELSE IF Head(rest) = "" THEN Walk(f, cur, Tail(rest), n, follow)
    ELSE LET q == Append(cur, Head(rest))
         IN  IF q \notin DOMAIN f
                 THEN [path |-> q, err |-> "ENOENT", last |-> (Tail(rest) = <<>>)]
             ELSE IF f[q].kind = "dir" THEN Walk(f, q, Tail(rest), n, follow)
             ELSE IF f[q].kind = "symlink"
                 THEN IF Tail(rest) = <<>> /\ ~follow
                          THEN [path |-> q, err |-> ErrNil, last |-> FALSE]
                      ELSE IF n = 0 THEN [path |-> q, err |-> "ELOOP", last |-> FALSE]
                      ELSE Walk(f, cur, f[q].link \o Tail(rest), n - 1, follow)
             ELSE IF Tail(rest) = <<>> THEN [path |-> q, err |-> ErrNil, last |-> FALSE]
             ELSE [path |-> q, err |-> "ENOTDIR", last |-> FALSE]

\* a path is the string of its components with separators between them;
\* the empty string names nothing
Resolve(f, p, follow) ==
    IF p = <<>> \/ p = <<"">> THEN [path |-> <<>>, err |-> "ENOENT", last |-> FALSE]
    ELSE Walk(f, <<>>, p, MaxSymlinks, follow)

\* os.Stat: follows symbolic links
Stat(f, p) ==
    LET r == Resolve(f, p, TRUE)
    IN  IF r.err # ErrNil THEN [info |-> NoInfo, err |-> r.err]
        ELSE [info |-> f[r.path], err |-> ErrNil]

\* os.Lstat: a symbolic link in the last component is not followed
Lstat(f, p) ==
    LET r == Resolve(f, p, FALSE)
    IN  IF r.err # ErrNil THEN [info |-> NoInfo, err |-> r.err]
        ELSE [info |-> f[r.path], err |-> ErrNil]

\* the ancestors of p that a lookup cannot walk through: the prefix is
\* missing or does not lead to a directory
BadAncestors(f, p) ==
    { i \in 1..(Len(p) - 1) :
        \/ Stat(f, SubSeq(p, 1, i)).err # ErrNil
        \/ Stat(f, SubSeq(p, 1, i)).info.kind # "dir" }

\* the error of the first of them (shortest first)
AncestorErr(f, p) ==
    IF BadAncestors(f, p) = {} THEN ErrNil
    ELSE LET i == CHOOSE j \in BadAncestors(f, p) : \A k \in BadAncestors(f, p) : j <= k
             st == Stat(f, SubSeq(p, 1, i))
         IN  IF st.err # ErrNil THEN st.err ELSE "ENOTDIR"

IsNotExist(err) == err = "ENOENT"

\* p without its trailing separators
RECURSIVE StripSeparators(_)
StripSeparators(p) ==
    IF p # <<>> /\ p[Len(p)] = "" THEN StripSeparators(Parent(p)) ELSE p

\* the permission bits os.Chmod and os.Mkdir hand to the kernel for an
\* os.FileMode: the nine low bits, and the set-uid, set-gid and sticky bits
\* where os.FileMode keeps them (bits 23, 22 and 20)
syscallMode(mode) ==
    (mode % 512)
    + (IF (mode \div 8388608) % 2 = 1 THEN 2048 ELSE 0)
    + (IF (mode \div 4194304) % 2 = 1 THEN 1024 ELSE 0)
    + (IF (mode \div 1048576) % 2 = 1 THEN 512 ELSE 0)

\* the bits of mode that mask leaves: mode & ~mask
RECURSIVE ClearBits(_, _)
ClearBits(mode, mask) ==
    IF mode = 0 THEN 0
    ELSE (IF mode % 2 = 1 /\ mask % 2 = 0 THEN 1 ELSE 0)
         + 2 * ClearBits(mode \div 2, mask \div 2)

\* os.Mkdir(p, perm) in a process with the file mode creation mask um: a
\* name that is taken, by a link too, is EEXIST
Mkdir(f, um, p, perm) ==
    LET r == Resolve(f, StripSeparators(p), FALSE)
    IN  IF r.err = ErrNil THEN [fs |-> f, err |-> "EEXIST"]
        ELSE IF IsNotExist(r.err) /\ r.last
            THEN [fs |-> Create(f, r.path, DirNode(ClearBits(syscallMode(perm), um))),
                  err |-> ErrNil]
        ELSE [fs |-> f, err |-> r.err]

\* a call of os.MkdirAll under way: stack holds the paths of the nested
\* calls, the innermost last; phase is the system call the innermost call
\* makes next; err is the error of its os.Mkdir
NoMkdirAll == [stack |-> <<>>, phase |-> "none", err |-> ErrNil]

\* the call os.MkdirAll(p, perm) before its first system call
MkdirAllOf(p) == [stack |-> <<p>>, phase |-> "stat", err |-> ErrNil]

\* the innermost call of m returns e: an error ends every call around it,
\* after nil the call around it goes on to its os.Mkdir
MkdirAllReturns(f, m, e) ==
    IF e # ErrNil \/ Len(m.stack) = 1
        THEN [fs |-> f, m |-> NoMkdirAll, returned |-> TRUE, err |-> e]
    ELSE [fs |-> f, m |-> [stack |-> Parent(m.stack), phase |-> "mkdir", err |-> ErrNil],
          returned |-> FALSE, err |-> ErrNil]

\* one system call of os.MkdirAll(p, perm): os.Stat (nothing to do when p
\* leads to a directory, an error when it leads to something else,
\* otherwise the parent first), then os.Mkdir, whose error stands unless
\* os.Lstat finds a directory
MkdirAll(f, um, m, perm) ==
    LET p == m.stack[Len(m.stack)]
        q == StripSeparators(p)
        st == Stat(f, p)
        mk == Mkdir(f, um, p, perm)
        ls == Lstat(f, p)
    IN  IF m.phase = "stat"
            THEN IF st.err = ErrNil
                     THEN MkdirAllReturns(f, m, IF st.info.kind = "dir" THEN ErrNil
                                                ELSE "ENOTDIR")
                 ELSE IF Len(q) > 1
                     THEN [fs |-> f, m |-> [m EXCEPT !.stack = Append(@, Parent(q))],
                           returned |-> FALSE, err |-> ErrNil]
                 ELSE [fs |-> f, m |-> [m EXCEPT !.phase = "mkdir"],
                       returned |-> FALSE, err |-> ErrNil]
        ELSE IF m.phase = "mkdir"
            THEN IF mk.err = ErrNil THEN MkdirAllReturns(mk.fs, m, ErrNil)
                 ELSE [fs |-> f, m |-> [m EXCEPT !.phase = "lstat", !.err = mk.err],
                       returned |-> FALSE, err |-> ErrNil]
        ELSE MkdirAllReturns(f, m, IF ls.err = ErrNil /\ ls.info.kind = "dir" THEN ErrNil
                                   ELSE m.err)

\* os.Chmod: follows symbolic links, sets the bits of syscallMode
Chmod(f, p, mode) ==
    LET r == Resolve(f, p, TRUE)
    IN  IF r.err # ErrNil THEN [fs |-> f, err |-> r.err]
        ELSE [fs |-> [q \in DOMAIN f |->
                        IF q \in NamesOfFile(f, r.path)
                        THEN [f[q] EXCEPT !.mode = syscallMode(mode)] ELSE f[q]],
              err |-> ErrNil]

\* os.Link(oldname, newname): the old name is looked up first, then the new
\* one, and only then is a directory refused; the new name is one more
\* name of the same file
Link(f, old, new) ==
    LET ro == Resolve(f, old, FALSE)
        rn == Resolve(f, new, FALSE)
    IN  IF ro.err # ErrNil THEN [fs |-> f, err |-> ro.err]
        ELSE IF rn.err = ErrNil THEN [fs |-> f, err |-> "EEXIST"]
        ELSE IF ~(IsNotExist(rn.err) /\ rn.last) THEN [fs |-> f, err |-> rn.err]
        ELSE IF f[ro.path].kind = "dir" THEN [fs |-> f, err |-> "EPERM"]
        ELSE [fs |-> Put(f, rn.path, f[ro.path]), err |-> ErrNil]

\* os.Symlink(oldname, newname)
Symlink(f, text, new) ==
    LET rn == Resolve(f, new, FALSE)
    IN  IF rn.err = ErrNil THEN [fs |-> f, err |-> "EEXIST"]
        ELSE IF ~(IsNotExist(rn.err) /\ rn.last) THEN [fs |-> f, err |-> rn.err]
        ELSE [fs |-> Create(f, rn.path, SymlinkNode(text)), err |-> ErrNil]

\* an open file: path is the name the lookup ended at
Handle(p, flag) == [path |-> p, flag |-> flag, open |-> TRUE, syncs |-> 0, closes |-> 0]

\* os.OpenFile(p, os.O_RDWR, 0666)
OpenRDWR(f, p) ==
    LET r == Resolve(f, p, TRUE)
    IN  IF r.err # ErrNil THEN [fs |-> f, file |-> NoFile, err |-> r.err]
        ELSE IF f[r.path].kind = "dir" THEN [fs |-> f, file |-> NoFile, err |-> "EISDIR"]
        ELSE [fs |-> f, file |-> Handle(r.path, "O_RDWR"), err |-> ErrNil]

\* os.OpenFile(p, flag|os.O_CREATE|os.O_TRUNC, 0666) with flag an access
\* mode, in a process with the file mode creation mask um: symbolic links are followed, a missing file is made where the
\* lookup ended, an existing one is emptied
OpenCreateTrunc(f, um, p, flag) ==
    LET r == Resolve(f, p, TRUE)
    IN  IF r.err = ErrNil
            THEN IF f[r.path].kind = "dir" THEN [fs |-> f, file |-> NoFile, err |-> "EISDIR"]
                 ELSE [fs |-> WriteData(f, r.path, <<>>), file |-> Handle(r.path, flag),
                       err |-> ErrNil]
        ELSE IF IsNotExist(r.err) /\ r.last
            THEN [fs |-> Create(f, r.path, FileNode(<<>>, ClearBits(syscallMode(FilePerm), um))),
                  file |-> Handle(r.path, flag), err |-> ErrNil]
        ELSE [fs |-> f, file |-> NoFile, err |-> r.err]

\* the target directory before a restore run: the data directory exists,
\* the working directory holds a file "h"; a variant already holds the
\* page file data/f; in another a regular file is where the directory
\* data/base is to be, and the working directory holds no file "h"
FsEmpty ==
    Create(Create(Create(<<>>, <<>>, DirNode(DirPerm)), <<"data">>, DirNode(DirPerm)),
           <<"h">>, FileNode(<<5>>, FilePerm))
FsWithF == Create(FsEmpty, <<"data", "f">>, FileNode(<<7, 7>>, FilePerm))
FsBlocked ==
    Create(Create(Create(<<>>, <<>>, DirNode(DirPerm)), <<"data">>, DirNode(DirPerm)),
           <<"data", "base">>, FileNode(<<>>, FilePerm))
InitialFs == {FsEmpty, FsWithF, FsBlocked}

\* the file mode creation masks a restore runs under: 022 and 077
Umasks == {18, 63}

\* ------------------------------------------------------------------------
\* Helpers of the interpreter
\* ------------------------------------------------------------------------

\* filepath.Base of a clean relative name
Base(name) == IF name = <<>> THEN "." ELSE name[Len(name)]

\* strings.HasSuffix on the characters of two strings
HasSuffix(s, suffix) ==
    Len(suffix) <= Len(s) /\ SubSeq(s, Len(s) - Len(suffix) + 1, Len(s)) = suffix

\* strings.TrimSuffix(targetPath, base), base without a separator: the
\* characters of base are cut from the end of the last component; when
\* nothing of it is left the path ends with the separator (an empty last
\* component)
TrimSuffix(p, base) ==
    IF p # <<>> /\ HasSuffix(p[Len(p)], base)
        THEN Append(Parent(p), SubSeq(p[Len(p)], 1, Len(p[Len(p)]) - Len(base)))
    ELSE p

\* PrepareDirs: the call of os.MkdirAll it makes, none when the two names
\* are the same
PrepareDirs(fileName, targetPath) ==
    IF fileName = targetPath THEN NoMkdirAll
    ELSE MkdirAllOf(TrimSuffix(targetPath, Base(fileName)))

\* panics: info.IsDir() is called on a nil info when os.Stat failed with an
\* error other than "does not exist"
getLocalFileInfo(f, targetPath) ==
    LET st == Stat(f, targetPath)
    IN  IF IsNotExist(st.err) THEN [fileInfo |-> NoInfo, err |-> st.err, panics |-> FALSE]
        ELSE IF st.err # ErrNil THEN [fileInfo |-> NoInfo, err |-> st.err, panics |-> TRUE]
        ELSE IF st.info.kind = "dir"
            THEN [fileInfo |-> NoInfo, err |-> "requested file is directory", panics |-> FALSE]
        ELSE [fileInfo |-> st.info, err |-> ErrNil, panics |-> FALSE]

\* the access mode createLocalFile opens the new file with
CreateFlag == "O_WRONLY"

\* whether getLocalFile takes the "existing file" branch
TakesExistingBranch(info) == info.fileInfo # NoInfo

\* isPagedFile: the structural probe of the existing file
isPagedFile(info) == Len(info.data) > 0

\* getFileUnwrapper taking an entry without a description for incremented
getFileUnwrapperOfMissing(f, files, catchup, hdr, targetPath) ==
    LET info == getLocalFileInfo(f, targetPath)
        isIncremented == hdr.Name \notin DOMAIN files \/ files[hdr.Name].IsIncremented
        isPageFile == IF info.fileInfo # NoInfo THEN isPagedFile(info.fileInfo) ELSE FALSE
    IN  [unwrapper |-> [kind |-> IF catchup THEN "Catchup" ELSE "Default",
                        isIncremented |-> isIncremented, isPageFile |-> isPageFile],
         panics |-> info.panics,
         ops |-> IF info.fileInfo # NoInfo THEN <<"stat", "isPagedFile">> ELSE <<"stat">>]

getFileUnwrapper(f, files, catchup, hdr, targetPath) ==
    LET info == getLocalFileInfo(f, targetPath)
        isIncremented == hdr.Name \in DOMAIN files /\ files[hdr.Name].IsIncremented
        isPageFile == IF info.fileInfo # NoInfo THEN isPagedFile(info.fileInfo) ELSE FALSE
    IN  [unwrapper |-> [kind |-> IF catchup THEN "Catchup" ELSE "Default",
                        isIncremented |-> isIncremented, isPageFile |-> isPageFile],
         panics |-> info.panics,
         ops |-> IF info.fileInfo # NoInfo THEN <<"stat", "isPagedFile">> ELSE <<"stat">>]

\* the filter with the test of ok inverted
SkippedByFilterInverted(allow, name) == ~allow.isNil /\ name \in DOMAIN allow.m

\* the filter that looks the name up without testing for nil
SkippedByFilterNoNilTest(allow, name) == name \notin DOMAIN allow.m

\* the filter that reads the stored flag
SkippedByFilterOnFlag(allow, name) ==
    ~allow.isNil /\ ~(name \in DOMAIN allow.m /\ allow.m[name])

\* the filter at the head of unwrapRegularFile
SkippedByFilter(allow, name) == ~allow.isNil /\ name \notin DOMAIN allow.m

\* ------------------------------------------------------------------------
\* Unwrap strategy
\* ------------------------------------------------------------------------

Max(a, b) == IF a >= b THEN a ELSE b
MaxOf(S) == IF S = {} THEN 0 ELSE CHOOSE x \in S : \A y \in S : y <= x

FullData(hdr) == [i \in 1..hdr.Size |-> 1]
IncrementData(hdr) == [i \in 1..hdr.Size |-> IF i \in hdr.Blocks THEN 1 ELSE 0]
MergedData(old, hdr) ==
    [i \in 1..Max(Len(old), MaxOf(hdr.Blocks)) |->
        IF i \in hdr.Blocks THEN 1 ELSE old[i]]

Result(type, count) == [FileUnwrapResultType |-> type, blockCount |-> count]

UnwrapNewFile(unwrapper, hdr) ==
    IF unwrapper.isIncremented
        THEN [data |-> IncrementData(hdr),
              result |-> Result("CreatedFromIncrement", Cardinality(hdr.Blocks))]
        ELSE [data |-> FullData(hdr), result |-> Result("Completed", 0)]

UnwrapExistingFile(unwrapper, hdr, old) ==
    IF unwrapper.isIncremented
        THEN [data |-> MergedData(old, hdr),
              result |-> Result("WroteIncrementBlocks", Cardinality(hdr.Blocks))]
        ELSE [data |-> FullData(hdr), result |-> Result("Completed", 0)]

\* the two defer statements in the other order
DeferredCallsSwapped == <<"close", "sync">>

\* the deferred calls of unwrapRegularFile in the order they run when it
\* returns: the last registered first
DeferredCalls == <<"sync", "close">>

\* the step AddFileUnwrapResult continues with for a result
AddFileUnwrapResultPc(result) ==
    CASE result.FileUnwrapResultType = "Completed" -> "addToCompletedFiles"
      [] result.FileUnwrapResultType = "CreatedFromIncrement" -> "addToCreatedPageFiles"
      [] result.FileUnwrapResultType = "WroteIncrementBlocks" -> "addToWrittenIncrementFiles"
      [] OTHER -> DeferredCalls[1]

\* ------------------------------------------------------------------------
\* State
\* ------------------------------------------------------------------------

VARIABLES
    fs,                          \* the file system
    fs0,                         \* the file system as the run found it
    FilesToUnwrap,               \* the allowlist of the interpreter
    createNewIncrementalFiles,   \* catchup mode
    fsync,                       \* !TarDisableFsyncSetting
    completedFiles,              \* UnwrapResult.completedFiles
    createdPageFiles,            \* UnwrapResult.createdPageFiles
    writtenIncrementFiles,       \* UnwrapResult.writtenIncrementFiles
    completedFilesMutex,         \* owner of each mutex, or NoOwner
    createdPageFilesMutex,
    writtenIncrementFilesMutex,
    umask,                       \* the file mode creation mask of the process
    pc,                          \* position of each worker in Interpret
    header,                      \* the entry a worker interprets
    fileUnwrapper,               \* result of getFileUnwrapper
    localFile,                   \* the handle returned by getLocalFile
    isNewFile,
    mkdirAll,                    \* the call of os.MkdirAll a worker is in
    unwrapResult,
    unwrapError,                 \* the error the unwrap call returned
    loaded,                      \* the collection as read under the mutex
    ret,                         \* the value Interpret returned
    log,                         \* the calls a worker made in this Interpret
    calls,                       \* number of Interpret calls so far
    regCalls,                    \* number of them per regular-file name
    reported,                    \* results handed to AddFileUnwrapResult
    objectName,                  \* IsPermanent: the storage object path
    backupNameLength,            \* IsPermanent: the length of a backup name
    isPermanent,                 \* IsPermanent: the value returned
    permanentBackups,            \* the map of permanent backups
    backupTimes,                 \* FindPermanentBackups: result of GetBackups
    metaFetcher,                 \* result of metaFetcher.Fetch per backup name
    position,                    \* FindPermanentBackups: the statement it is at
    index,                       \* FindPermanentBackups: position of the range loop
    found                        \* the map FindPermanentBackups returned

aggregate == <<completedFiles, createdPageFiles, writtenIncrementFiles>>
mutexes == <<completedFilesMutex, createdPageFilesMutex, writtenIncrementFilesMutex>>
config == <<FilesToUnwrap, createNewIncrementalFiles, fsync, fs0, umask>>
permanence == <<objectName, backupNameLength, isPermanent, permanentBackups,
               backupTimes, metaFetcher, position, index, found>>
locals == <<header, fileUnwrapper, localFile, isNewFile, mkdirAll, unwrapResult, unwrapError,
           loaded, ret>>
vars == <<fs, config, permanence, aggregate, mutexes, pc, locals, log, calls, regCalls, reported>>

Crashed == \E w \in Workers : pc[w] = "panic"

\* a target path that leaves the entry name out
targetPathOfDataDirectory(w) == Join(DBDataDirectory, <<"f">>)

\* Interpret: targetPath := path.Join(tarInterpreter.DBDataDirectory, fileInfo.Name)
targetPath(w) == Join(DBDataDirectory, header[w].Name)

NotCalled == [called |-> FALSE, value |-> FALSE, panics |-> FALSE]
NotReturned == [returned |-> FALSE, map |-> NilMap]

\* no call of the permanence functions is under way
PermanenceUnused ==
    /\ objectName = <<>>
    /\ backupNameLength = 0
    /\ isPermanent = NotCalled
    /\ permanentBackups = NilMap
    /\ backupTimes = [err |-> ErrNil, list |-> <<>>]
    /\ metaFetcher = <<>>
    /\ position = "none"
    /\ index = 0
    /\ found = NotReturned

\* NewFileTarInterpreter with NewUnwrapResult, before the first Interpret
Init ==
    /\ fs \in InitialFs
    /\ fs0 = fs
    /\ umask \in Umasks
    /\ FilesToUnwrap \in Allowlists
    /\ createNewIncrementalFiles \in BOOLEAN
    /\ fsync \in BOOLEAN
    /\ completedFiles = <<>>
    /\ createdPageFiles = <<>>
    /\ writtenIncrementFiles = <<>>
    /\ completedFilesMutex = NoOwner
    /\ createdPageFilesMutex = NoOwner
    /\ writtenIncrementFilesMutex = NoOwner
    /\ pc = [w \in Workers |-> "idle"]
    /\ header = [w \in Workers |-> NoHeader]
    /\ fileUnwrapper = [w \in Workers |-> NoUnwrapper]
    /\ localFile = [w \in Workers |-> NoFile]
    /\ isNewFile = [w \in Workers |-> FALSE]
    /\ mkdirAll = [w \in Workers |-> NoMkdirAll]
    /\ unwrapResult = [w \in Workers |-> NoResult]
    /\ unwrapError = [w \in Workers |-> ErrNil]
    /\ loaded = [w \in Workers |-> <<>>]
    /\ ret = [w \in Workers |-> "none"]
    /\ log = [w \in Workers |-> <<>>]
    /\ calls = 0
    /\ regCalls = [n \in RegNames |-> 0]
    /\ reported = {}
    /\ PermanenceUnused

\* a worker enters Interpret with entry e
Enter(w, e) ==
    /\ ~Crashed
    /\ pc[w] \in {"idle", "done"}
    /\ calls < MaxCalls
    /\ calls' = calls + 1
    /\ header' = [header EXCEPT ![w] = e]
    /\ regCalls' = IF e.Typeflag = TypeReg
                      THEN [regCalls EXCEPT ![e.Name] = @ + 1]
                      ELSE regCalls
    /\ fileUnwrapper' = [fileUnwrapper EXCEPT ![w] = NoUnwrapper]
    /\ localFile' = [localFile EXCEPT ![w] = NoFile]
    /\ isNewFile' = [isNewFile EXCEPT ![w] = FALSE]
    /\ unwrapResult' = [unwrapResult EXCEPT ![w] = NoResult]
    /\ unwrapError' = [unwrapError EXCEPT ![w] = ErrNil]
    /\ loaded' = [loaded EXCEPT ![w] = <<>>]

\* Interpret, case tar.TypeReg: the head of unwrapRegularFile
InterpretReg(w, e) ==
    /\ e.Typeflag = TypeReg
    /\ Enter(w, e)
    /\ log' = [log EXCEPT ![w] = <<>>]
    /\ IF SkippedByFilter(FilesToUnwrap, e.Name)
          THEN /\ pc' = [pc EXCEPT ![w] = "done"]
               /\ ret' = [ret EXCEPT ![w] = ErrNil]
          ELSE /\ pc' = [pc EXCEPT ![w] = "getFileUnwrapper"]
               /\ ret' = [ret EXCEPT ![w] = "none"]
    /\ UNCHANGED <<fs, config, permanence, aggregate, mutexes, mkdirAll, reported>>

\* where a worker goes when its os.MkdirAll has made the system call s:
\* on in os.MkdirAll, or back with its error; nil leads the directory case
\* to os.Chmod and createLocalFile to os.OpenFile
AfterMkdirAll(w, s, type) ==
    /\ fs' = s.fs
    /\ mkdirAll' = [mkdirAll EXCEPT ![w] = s.m]
    /\ IF ~s.returned
          THEN /\ pc' = [pc EXCEPT ![w] = "mkdirAll"]
               /\ ret' = [ret EXCEPT ![w] = "none"]
       ELSE IF s.err # ErrNil
          THEN /\ pc' = [pc EXCEPT ![w] = "done"]
               /\ ret' = [ret EXCEPT ![w] = s.err]
       ELSE /\ pc' = [pc EXCEPT ![w] = IF type = TypeDir THEN "chmod" ELSE "openFile"]
            /\ ret' = [ret EXCEPT ![w] = "none"]

\* Interpret, case tar.TypeDir: the call of os.MkdirAll, with the first of
\* its system calls
InterpretDir(w, e) ==
    /\ e.Typeflag = TypeDir
    /\ Enter(w, e)
    /\ AfterMkdirAll(w, MkdirAll(fs, umask, MkdirAllOf(Join(DBDataDirectory, e.Name)), DirPerm),
                     TypeDir)
    /\ log' = [log EXCEPT ![w] = <<"mkdirall">>]
    /\ UNCHANGED <<config, permanence, aggregate, mutexes, reported>>

\* os.MkdirAll, called by Interpret for a directory entry or by PrepareDirs:
\* its next system call; its error is returned by Interpret, for a regular
\* file through createLocalFile and getLocalFile with isNewFile = true
MkdirAllSyscall(w) ==
    /\ ~Crashed
    /\ pc[w] = "mkdirAll"
    /\ LET s == MkdirAll(fs, umask, mkdirAll[w], DirPerm)
       IN  /\ AfterMkdirAll(w, s, header[w].Typeflag)
           /\ isNewFile' = [isNewFile EXCEPT ![w] =
                 header[w].Typeflag = TypeReg /\ s.returned /\ s.err # ErrNil]
    /\ UNCHANGED <<config, permanence, aggregate, mutexes, header, fileUnwrapper, localFile,
                   unwrapResult, unwrapError, loaded, log, calls, regCalls, reported>>

\* Interpret, case tar.TypeDir: os.Chmod of the directory, a system call
\* of its own after os.MkdirAll; its error is returned
InterpretDirChmod(w) ==
    /\ ~Crashed
    /\ pc[w] = "chmod"
    /\ LET c == Chmod(fs, targetPath(w), header[w].Mode)
       IN  /\ fs' = c.fs
           /\ ret' = [ret EXCEPT ![w] = c.err]
    /\ log' = [log EXCEPT ![w] = Append(@, "chmod")]
    /\ pc' = [pc EXCEPT ![w] = "done"]
    /\ UNCHANGED <<config, permanence, aggregate, mutexes, header, mkdirAll, fileUnwrapper, localFile,
                   isNewFile, unwrapResult, unwrapError, loaded, calls, regCalls, reported>>

\* the hard-link case with the target path as the source of the link
InterpretLinkFromTarget(w, e) ==
    /\ e.Typeflag = TypeLink
    /\ Enter(w, e)
    /\ LET l == Link(fs, Join(DBDataDirectory, e.Name), Join(DBDataDirectory, e.Name))
       IN  /\ fs' = l.fs
           /\ ret' = [ret EXCEPT ![w] = l.err]
    /\ log' = [log EXCEPT ![w] = <<"link">>]
    /\ pc' = [pc EXCEPT ![w] = "done"]
    /\ UNCHANGED <<config, permanence, aggregate, mutexes, mkdirAll, reported>>

\* Interpret, case tar.TypeLink
InterpretLink(w, e) ==
    /\ e.Typeflag = TypeLink
    /\ Enter(w, e)
    /\ LET l == Link(fs, e.Name, Join(DBDataDirectory, e.Name))
       IN  /\ fs' = l.fs
           /\ ret' = [ret EXCEPT ![w] = l.err]
    /\ log' = [log EXCEPT ![w] = <<"link">>]
    /\ pc' = [pc EXCEPT ![w] = "done"]
    /\ UNCHANGED <<config, permanence, aggregate, mutexes, mkdirAll, reported>>

\* Interpret, case tar.TypeSymlink
InterpretSymlink(w, e) ==
    /\ e.Typeflag = TypeSymlink
    /\ Enter(w, e)
    /\ LET l == Symlink(fs, e.Name, Join(DBDataDirectory, e.Name))
       IN  /\ fs' = l.fs
           /\ ret' = [ret EXCEPT ![w] = l.err]
    /\ log' = [log EXCEPT ![w] = <<"symlink">>]
    /\ pc' = [pc EXCEPT ![w] = "done"]
    /\ UNCHANGED <<config, permanence, aggregate, mutexes, mkdirAll, reported>>

\* an entry of another type made into an empty file
InterpretOtherMakesFile(w, e) ==
    /\ e.Typeflag \notin {TypeReg, TypeDir, TypeLink, TypeSymlink}
    /\ Enter(w, e)
    /\ fs' = Create(fs, Join(DBDataDirectory, e.Name), FileNode(<<>>, FilePerm))
    /\ ret' = [ret EXCEPT ![w] = ErrNil]
    /\ log' = [log EXCEPT ![w] = <<>>]
    /\ pc' = [pc EXCEPT ![w] = "done"]
    /\ UNCHANGED <<config, permanence, aggregate, mutexes, mkdirAll, reported>>

\* Interpret, any other type tag: no case of the switch applies
InterpretOther(w, e) ==
    /\ e.Typeflag \notin {TypeReg, TypeDir, TypeLink, TypeSymlink}
    /\ Enter(w, e)
    /\ ret' = [ret EXCEPT ![w] = ErrNil]
    /\ log' = [log EXCEPT ![w] = <<>>]
    /\ pc' = [pc EXCEPT ![w] = "done"]
    /\ UNCHANGED <<fs, config, permanence, aggregate, mutexes, mkdirAll, reported>>

\* unwrapRegularFile: fileUnwrapper := getFileUnwrapper(...)
GetFileUnwrapper(w) ==
    /\ ~Crashed
    /\ pc[w] = "getFileUnwrapper"
    /\ LET u == getFileUnwrapper(fs, FilesMetadataFiles, createNewIncrementalFiles,
                                 header[w], targetPath(w))
       IN  IF u.panics
              THEN /\ pc' = [pc EXCEPT ![w] = "panic"]
                   /\ UNCHANGED fileUnwrapper
              ELSE /\ pc' = [pc EXCEPT ![w] = "getLocalFile"]
                   /\ fileUnwrapper' = [fileUnwrapper EXCEPT ![w] = u.unwrapper]
    /\ log' = [log EXCEPT ![w] =
          @ \o <<"getFileUnwrapper">> \o
          getFileUnwrapper(fs, FilesMetadataFiles, createNewIncrementalFiles,
                           header[w], targetPath(w)).ops]
    /\ UNCHANGED <<fs, config, permanence, aggregate, mutexes, header, mkdirAll, localFile, isNewFile,
                   unwrapResult, unwrapError, loaded, ret, calls, regCalls, reported>>

\* getLocalFile: the probe getLocalFileInfo(targetPath), whose error is
\* dropped; it chooses between opening and creating
GetLocalFile(w) ==
    /\ ~Crashed
    /\ pc[w] = "getLocalFile"
    /\ LET info == getLocalFileInfo(fs, targetPath(w))
       IN  pc' = [pc EXCEPT ![w] =
                    IF info.panics THEN "panic"
                    ELSE IF TakesExistingBranch(info) THEN "openLocalFile"
                    ELSE "createLocalFile"]
    /\ log' = [log EXCEPT ![w] = @ \o <<"getLocalFile", "stat">>]
    /\ UNCHANGED <<fs, config, permanence, aggregate, mutexes, header, mkdirAll, fileUnwrapper, localFile,
                   isNewFile, unwrapResult, unwrapError, loaded, ret, calls, regCalls,
                   reported>>

\* unwrapRegularFile: if err != nil { return err }, before the deferred
\* calls are registered
ReturnOrUnwrap(w, err) ==
    IF err # ErrNil
       THEN /\ pc' = [pc EXCEPT ![w] = "done"]
            /\ ret' = [ret EXCEPT ![w] = err]
       ELSE /\ pc' = [pc EXCEPT ![w] = "unwrap"]
            /\ UNCHANGED ret

\* getLocalFile: localFile, err = os.OpenFile(targetPath, os.O_RDWR, 0666)
OpenLocalFile(w) ==
    /\ ~Crashed
    /\ pc[w] = "openLocalFile"
    /\ LET o == OpenRDWR(fs, targetPath(w))
       IN  /\ localFile' = [localFile EXCEPT ![w] = o.file]
           /\ ReturnOrUnwrap(w, o.err)
    /\ log' = [log EXCEPT ![w] = Append(@, "open")]
    /\ UNCHANGED <<fs, config, permanence, aggregate, mutexes, header, mkdirAll, fileUnwrapper,
                   isNewFile, unwrapResult, unwrapError, loaded, calls, regCalls, reported>>

\* getLocalFile: createLocalFile(targetPath, header.Name) is called;
\* PrepareDirs and, unless the two names are the same, the first system
\* call of its os.MkdirAll
CreateLocalFile(w) ==
    /\ ~Crashed
    /\ pc[w] = "createLocalFile"
    /\ LET m == PrepareDirs(header[w].Name, targetPath(w))
       IN  IF m = NoMkdirAll
              THEN /\ pc' = [pc EXCEPT ![w] = "openFile"]
                   /\ UNCHANGED <<fs, mkdirAll, ret, isNewFile>>
              ELSE LET s == MkdirAll(fs, umask, m, DirPerm)
                   IN  /\ AfterMkdirAll(w, s, TypeReg)
                       /\ isNewFile' = [isNewFile EXCEPT ![w] = s.returned /\ s.err # ErrNil]
    /\ log' = [log EXCEPT ![w] = Append(@, "mkdirall")]
    /\ UNCHANGED <<config, permanence, aggregate, mutexes, header, fileUnwrapper, localFile,
                   unwrapResult, unwrapError, loaded, calls, regCalls, reported>>

\* createLocalFile: os.OpenFile(targetPath, O_WRONLY|O_CREATE|O_TRUNC, 0666);
\* getLocalFile returns with isNewFile = true
CreateLocalFileOpen(w) ==
    /\ ~Crashed
    /\ pc[w] = "openFile"
    /\ LET o == OpenCreateTrunc(fs, umask, targetPath(w), CreateFlag)
       IN  /\ fs' = o.fs
           /\ localFile' = [localFile EXCEPT ![w] = o.file]
           /\ ReturnOrUnwrap(w, o.err)
    /\ log' = [log EXCEPT ![w] = Append(@, "create")]
    /\ isNewFile' = [isNewFile EXCEPT ![w] = TRUE]
    /\ UNCHANGED <<config, permanence, aggregate, mutexes, header, mkdirAll, fileUnwrapper,
                   unwrapResult, unwrapError, loaded, calls, regCalls, reported>>

\* the test of unwrapError left out
ReturnsOnErrorNever(failure) == FALSE

\* unwrapRegularFile: if unwrapError != nil { return unwrapError }
ReturnsOnError(failure) == failure # ErrNil

\* unwrapRegularFile: UnwrapNewFile or UnwrapExistingFile on the local file,
\* which may fail (corrupt increment, I/O error); a result is handed to
\* AddFileUnwrapResult, an error is returned
Unwrap(w) ==
    /\ ~Crashed
    /\ pc[w] = "unwrap"
    /\ LET p == localFile[w].path
           u == IF isNewFile[w]
                   THEN UnwrapNewFile(fileUnwrapper[w], header[w])
                   ELSE UnwrapExistingFile(fileUnwrapper[w], header[w], fs[p].data)
           call == IF isNewFile[w] THEN "UnwrapNewFile" ELSE "UnwrapExistingFile"
       IN  /\ log' = [log EXCEPT ![w] = Append(@, call)]
           /\ \E failure \in {ErrNil, "unwrapError"} :
                /\ unwrapError' = [unwrapError EXCEPT ![w] = failure]
                /\ IF ReturnsOnError(failure)
                      THEN /\ ret' = [ret EXCEPT ![w] = failure]
                           /\ pc' = [pc EXCEPT ![w] = DeferredCalls[1]]
                           /\ UNCHANGED <<fs, unwrapResult, reported>>
                      ELSE /\ fs' = WriteData(fs, p, u.data)
                           /\ unwrapResult' = [unwrapResult EXCEPT ![w] = u.result]
                           /\ reported' = reported \cup
                                 {[name |-> header[w].Name, result |-> u.result]}
                           /\ pc' = [pc EXCEPT ![w] = AddFileUnwrapResultPc(u.result)]
                           /\ ret' = [ret EXCEPT ![w] =
                                 IF AddFileUnwrapResultPc(u.result) = DeferredCalls[1]
                                    THEN ErrNil ELSE @]
    /\ UNCHANGED <<config, permanence, aggregate, mutexes, header, mkdirAll, fileUnwrapper, localFile,
                   isNewFile, loaded, calls, regCalls>>

\* a Lock that does not exclude
CanLockAlways(mutex) == TRUE

\* sync.Mutex.Lock returns once the mutex is free
CanLock(mutex) == mutex = NoOwner

\* addToCompletedFiles: Lock, and the read of the slice that append extends
AddToCompletedFilesLock(w) ==
    /\ ~Crashed
    /\ pc[w] = "addToCompletedFiles"
    /\ CanLock(completedFilesMutex)
    /\ completedFilesMutex' = w
    /\ loaded' = [loaded EXCEPT ![w] = completedFiles]
    /\ pc' = [pc EXCEPT ![w] = "appendCompletedFiles"]
    /\ log' = [log EXCEPT ![w] = Append(@, "Lock completedFilesMutex")]
    /\ UNCHANGED <<fs, config, permanence, aggregate, createdPageFilesMutex,
                   writtenIncrementFilesMutex, header, mkdirAll, fileUnwrapper, localFile,
                   isNewFile, unwrapResult, unwrapError, ret, calls, regCalls, reported>>

\* the Completed case running on into the CreatedFromIncrement case
AddToCompletedFilesFallThrough(w) ==
    /\ ~Crashed
    /\ pc[w] = "appendCompletedFiles"
    /\ completedFiles' = Append(loaded[w], header[w].Name)
    /\ completedFilesMutex' = NoOwner
    /\ pc' = [pc EXCEPT ![w] = "addToCreatedPageFiles"]
    /\ ret' = [ret EXCEPT ![w] = ErrNil]
    /\ log' = [log EXCEPT ![w] = @ \o <<"insert completedFiles", "Unlock completedFilesMutex">>]
    /\ UNCHANGED <<fs, config, permanence, createdPageFiles, writtenIncrementFiles,
                   createdPageFilesMutex, writtenIncrementFilesMutex, header, mkdirAll,
                   fileUnwrapper, localFile, isNewFile, unwrapResult, unwrapError, loaded,
                   calls, regCalls, reported>>

\* addToCompletedFiles returning without Unlock
AddToCompletedFilesNoUnlock(w) ==
    /\ ~Crashed
    /\ pc[w] = "appendCompletedFiles"
    /\ completedFiles' = Append(loaded[w], header[w].Name)
    /\ completedFilesMutex' = completedFilesMutex
    /\ pc' = [pc EXCEPT ![w] = DeferredCalls[1]]
    /\ ret' = [ret EXCEPT ![w] = ErrNil]
    /\ log' = [log EXCEPT ![w] = @ \o <<"insert completedFiles", "Unlock completedFilesMutex">>]
    /\ UNCHANGED <<fs, config, permanence, createdPageFiles, writtenIncrementFiles,
                   createdPageFilesMutex, writtenIncrementFilesMutex, header, mkdirAll,
                   fileUnwrapper, localFile, isNewFile, unwrapResult, unwrapError, loaded,
                   calls, regCalls, reported>>

\* addToCompletedFiles: the assignment of the appended slice, and Unlock
AddToCompletedFilesUnlock(w) ==
    /\ ~Crashed
    /\ pc[w] = "appendCompletedFiles"
    /\ completedFiles' = Append(loaded[w], header[w].Name)
    /\ completedFilesMutex' = NoOwner
    /\ pc' = [pc EXCEPT ![w] = DeferredCalls[1]]
    /\ ret' = [ret EXCEPT ![w] = ErrNil]
    /\ log' = [log EXCEPT ![w] = @ \o <<"insert completedFiles", "Unlock completedFilesMutex">>]
    /\ UNCHANGED <<fs, config, permanence, createdPageFiles, writtenIncrementFiles,
                   createdPageFilesMutex, writtenIncrementFilesMutex, header, mkdirAll,
                   fileUnwrapper, localFile, isNewFile, unwrapResult, unwrapError, loaded,
                   calls, regCalls, reported>>

\* addToCreatedPageFiles: Lock, and the read of the map
AddToCreatedPageFilesLock(w) ==
    /\ ~Crashed
    /\ pc[w] = "addToCreatedPageFiles"
    /\ CanLock(createdPageFilesMutex)
    /\ createdPageFilesMutex' = w
    /\ loaded' = [loaded EXCEPT ![w] = createdPageFiles]
    /\ pc' = [pc EXCEPT ![w] = "putCreatedPageFiles"]
    /\ log' = [log EXCEPT ![w] = Append(@, "Lock createdPageFilesMutex")]
    /\ UNCHANGED <<fs, config, permanence, aggregate, completedFilesMutex,
                   writtenIncrementFilesMutex, header, mkdirAll, fileUnwrapper, localFile,
                   isNewFile, unwrapResult, unwrapError, ret, calls, regCalls, reported>>

\* addToCreatedPageFiles: the map assignment, and Unlock
AddToCreatedPageFilesUnlock(w) ==
    /\ ~Crashed
    /\ pc[w] = "putCreatedPageFiles"
    /\ createdPageFiles' = Put(loaded[w], header[w].Name, unwrapResult[w].blockCount)
    /\ createdPageFilesMutex' = NoOwner
    /\ pc' = [pc EXCEPT ![w] = DeferredCalls[1]]
    /\ ret' = [ret EXCEPT ![w] = ErrNil]
    /\ log' = [log EXCEPT ![w] = @ \o <<"insert createdPageFiles", "Unlock createdPageFilesMutex">>]
    /\ UNCHANGED <<fs, config, permanence, completedFiles, writtenIncrementFiles,
                   completedFilesMutex, writtenIncrementFilesMutex, header, mkdirAll,
                   fileUnwrapper, localFile, isNewFile, unwrapResult, unwrapError, loaded,
                   calls, regCalls, reported>>

\* addToWrittenIncrementFiles: Lock, and the read of the map
AddToWrittenIncrementFilesLock(w) ==
    /\ ~Crashed
    /\ pc[w] = "addToWrittenIncrementFiles"
    /\ CanLock(writtenIncrementFilesMutex)
    /\ writtenIncrementFilesMutex' = w
    /\ loaded' = [loaded EXCEPT ![w] = writtenIncrementFiles]
    /\ pc' = [pc EXCEPT ![w] = "putWrittenIncrementFiles"]
    /\ log' = [log EXCEPT ![w] = Append(@, "Lock writtenIncrementFilesMutex")]
    /\ UNCHANGED <<fs, config, permanence, aggregate, completedFilesMutex,
                   createdPageFilesMutex, header, mkdirAll, fileUnwrapper, localFile,
                   isNewFile, unwrapResult, unwrapError, ret, calls, regCalls, reported>>

\* addToWrittenIncrementFiles: the map assignment, and Unlock
AddToWrittenIncrementFilesUnlock(w) ==
    /\ ~Crashed
    /\ pc[w] = "putWrittenIncrementFiles"
    /\ writtenIncrementFiles' =
          Put(loaded[w], header[w].Name, unwrapResult[w].blockCount)
    /\ writtenIncrementFilesMutex' = NoOwner
    /\ pc' = [pc EXCEPT ![w] = DeferredCalls[1]]
    /\ ret' = [ret EXCEPT ![w] = ErrNil]
    /\ log' = [log EXCEPT ![w] =
          @ \o <<"insert writtenIncrementFiles", "Unlock writtenIncrementFilesMutex">>]
    /\ UNCHANGED <<fs, config, permanence, completedFiles, createdPageFiles,
                   completedFilesMutex, createdPageFilesMutex, header, mkdirAll,
                   fileUnwrapper, localFile, isNewFile, unwrapResult, unwrapError, loaded,
                   calls, regCalls, reported>>

AfterDeferred(step) == IF step = DeferredCalls[1] THEN DeferredCalls[2] ELSE "done"

\* utility.LoggedSync(localFile, "", fsync): syncs when fsync is set; the
\* failure of a sync is logged only
LoggedSync(w) ==
    /\ ~Crashed
    /\ pc[w] = "sync"
    /\ pc' = [pc EXCEPT ![w] = AfterDeferred("sync")]
    /\ IF fsync
          THEN /\ localFile' = [localFile EXCEPT
                      ![w].syncs = IF localFile[w].open THEN @ + 1 ELSE @]
               /\ log' = [log EXCEPT ![w] = Append(@, "sync")]
          ELSE UNCHANGED <<localFile, log>>
    /\ UNCHANGED <<fs, config, permanence, aggregate, mutexes, header, mkdirAll, fileUnwrapper,
                   isNewFile, unwrapResult, unwrapError, loaded, ret, calls, regCalls, reported>>

\* utility.LoggedClose(localFile, "")
LoggedClose(w) ==
    /\ ~Crashed
    /\ pc[w] = "close"
    /\ pc' = [pc EXCEPT ![w] = AfterDeferred("close")]
    /\ localFile' = [localFile EXCEPT ![w].open = FALSE, ![w].closes = @ + 1]
    /\ log' = [log EXCEPT ![w] = Append(@, "close")]
    /\ UNCHANGED <<fs, config, permanence, aggregate, mutexes, header, mkdirAll, fileUnwrapper,
                   isNewFile, unwrapResult, unwrapError, loaded, ret, calls, regCalls, reported>>

Next ==
    \/ \E w \in Workers, e \in Entries : InterpretReg(w, e)
    \/ \E w \in Workers, e \in Entries : InterpretDir(w, e)
    \/ \E w \in Workers : MkdirAllSyscall(w)
    \/ \E w \in Workers : InterpretDirChmod(w)
    \/ \E w \in Workers, e \in Entries : InterpretLink(w, e)
    \/ \E w \in Workers, e \in Entries : InterpretSymlink(w, e)
    \/ \E w \in Workers, e \in Entries : InterpretOther(w, e)
    \/ \E w \in Workers : GetFileUnwrapper(w)
    \/ \E w \in Workers : GetLocalFile(w)
    \/ \E w \in Workers : OpenLocalFile(w)
    \/ \E w \in Workers : CreateLocalFile(w)
    \/ \E w \in Workers : CreateLocalFileOpen(w)
    \/ \E w \in Workers : Unwrap(w)
    \/ \E w \in Workers : AddToCompletedFilesLock(w)
    \/ \E w \in Workers : AddToCompletedFilesUnlock(w)
    \/ \E w \in Workers : AddToCreatedPageFilesLock(w)
    \/ \E w \in Workers : AddToCreatedPageFilesUnlock(w)
    \/ \E w \in Workers : AddToWrittenIncrementFilesLock(w)
    \/ \E w \in Workers : AddToWrittenIncrementFilesUnlock(w)
    \/ \E w \in Workers : LoggedSync(w)
    \/ \E w \in Workers : LoggedClose(w)

Spec == Init /\ [][Next]_vars

\* ------------------------------------------------------------------------
\* Permanent backups (package internal): FindPermanentBackups, IsPermanent
\* ------------------------------------------------------------------------

\* longest storage object path, longest backup name, most backups listed
MaxObjectNameLen == 4
MaxBackupNameLen == 2
MaxBackups == 2

\* a string is the sequence of its characters
Chars == {"b", "/", "A", "w"}

RECURSIVE StringsUpTo(_)
StringsUpTo(n) ==
    IF n = 0 THEN { <<>> }
    ELSE StringsUpTo(n - 1) \cup
         { Append(s, c) : s \in { t \in StringsUpTo(n - 1) : Len(t) = n - 1 }, c \in Chars }

\* utility.BaseBackupPath, the folder of the base backups with its slash
BaseBackupPath == <<"b", "/">>

BackupNames == { <<"A">>, <<"A", "A">>, <<"w">> }

\* the values of a map[string]bool over the backup names, nil included
BoolMaps ==
    {NilMap} \cup
    UNION { { MakeMap(f) : f \in [S -> BOOLEAN] } : S \in SUBSET BackupNames }

\* strings.HasPrefix
HasPrefix(s, prefix) == Len(s) >= Len(prefix) /\ SubSeq(s, 1, Len(prefix)) = prefix

\* s[lo:hi] of a string: a run-time panic unless 0 <= lo <= hi <= len(s)
SliceInRange(s, lo, hi) == 0 <= lo /\ lo <= hi /\ hi <= Len(s)
Slice(s, lo, hi) == SubSeq(s, lo + 1, hi)

\* m[key] of a map[string]bool: the zero value for a missing key and for
\* a nil map
MapIndex(map, key) ==
    IF ~map.isNil /\ key \in DOMAIN map.m THEN map.m[key] ELSE FALSE

\* IsPermanent without the test of the length
IsPermanentNoLengthTest(name, backups, length) ==
    LET lo == Len(BaseBackupPath)
        hi == Len(BaseBackupPath) + length
    IN  IF HasPrefix(name, BaseBackupPath)
            THEN IF SliceInRange(name, lo, hi)
                    THEN [value |-> MapIndex(backups, Slice(name, lo, hi)), panics |-> FALSE]
                    ELSE [value |-> FALSE, panics |-> TRUE]
            ELSE [value |-> FALSE, panics |-> FALSE]

IsPermanent(name, backups, length) ==
    LET lo == Len(BaseBackupPath)
        hi == Len(BaseBackupPath) + length
    IN  IF HasPrefix(name, BaseBackupPath) /\ Len(name) >= hi
            THEN IF SliceInRange(name, lo, hi)
                    THEN [value |-> MapIndex(backups, Slice(name, lo, hi)), panics |-> FALSE]
                    ELSE [value |-> FALSE, panics |-> TRUE]
            ELSE [value |-> FALSE, panics |-> FALSE]

\* the interpreter is not in use
InterpreterUnused ==
    /\ fs = FsEmpty
    /\ fs0 = FsEmpty
    /\ umask = 18
    /\ FilesToUnwrap = NilMap
    /\ createNewIncrementalFiles = FALSE
    /\ fsync = FALSE
    /\ completedFiles = <<>>
    /\ createdPageFiles = <<>>
    /\ writtenIncrementFiles = <<>>
    /\ completedFilesMutex = NoOwner
    /\ createdPageFilesMutex = NoOwner
    /\ writtenIncrementFilesMutex = NoOwner
    /\ pc = [w \in Workers |-> "idle"]
    /\ header = [w \in Workers |-> NoHeader]
    /\ fileUnwrapper = [w \in Workers |-> NoUnwrapper]
    /\ localFile = [w \in Workers |-> NoFile]
    /\ isNewFile = [w \in Workers |-> FALSE]
    /\ mkdirAll = [w \in Workers |-> NoMkdirAll]
    /\ unwrapResult = [w \in Workers |-> NoResult]
    /\ unwrapError = [w \in Workers |-> ErrNil]
    /\ loaded = [w \in Workers |-> <<>>]
    /\ ret = [w \in Workers |-> "none"]
    /\ log = [w \in Workers |-> <<>>]
    /\ calls = 0
    /\ regCalls = [n \in RegNames |-> 0]
    /\ reported = {}

interpreter == <<fs, config, aggregate, mutexes, pc, locals, log, calls, regCalls, reported>>

\* the arguments of one call of IsPermanent
InitIsPermanent ==
    /\ InterpreterUnused
    /\ objectName \in StringsUpTo(MaxObjectNameLen)
    /\ permanentBackups \in BoolMaps
    /\ backupNameLength \in 0..MaxBackupNameLen
    /\ isPermanent = NotCalled
    /\ backupTimes = [err |-> ErrNil, list |-> <<>>]
    /\ metaFetcher = <<>>
    /\ position = "none"
    /\ index = 0
    /\ found = NotReturned

\* the call IsPermanent(objectName, permanentBackups, backupNameLength)
CallIsPermanent ==
    /\ isPermanent = NotCalled
    /\ LET r == IsPermanent(objectName, permanentBackups, backupNameLength)
       IN  isPermanent' = [called |-> TRUE, value |-> r.value, panics |-> r.panics]
    /\ UNCHANGED <<interpreter, objectName, backupNameLength, permanentBackups,
                   backupTimes, metaFetcher, position, index, found>>

NextIsPermanent == CallIsPermanent

SpecIsPermanent == InitIsPermanent /\ [][NextIsPermanent]_vars

\* the listings GetBackups can return: an error, or the backups of the
\* folder in some order, no name twice
RECURSIVE ListingsUpTo(_)
ListingsUpTo(n) ==
    IF n = 0 THEN { <<>> }
    ELSE ListingsUpTo(n - 1) \cup
         { Append(l, b) : l \in { t \in ListingsUpTo(n - 1) : Len(t) = n - 1 },
                          b \in BackupNames }

NoRepeat(l) == \A i, j \in 1..Len(l) : l[i] = l[j] => i = j

GetBackupsResults ==
    { [err |-> "listing failed", list |-> <<>>] } \cup
    { [err |-> ErrNil, list |-> l] : l \in { t \in ListingsUpTo(MaxBackups) : NoRepeat(t) } }

\* what metaFetcher.Fetch returns for a backup name
FetchResults ==
    { [err |-> "fetch failed", IsPermanent |-> FALSE],
      [err |-> ErrNil, IsPermanent |-> FALSE],
      [err |-> ErrNil, IsPermanent |-> TRUE] }

\* the storage one call of FindPermanentBackups runs on
InitFindPermanentBackups ==
    /\ InterpreterUnused
    /\ objectName = <<>>
    /\ backupNameLength = 0
    /\ isPermanent = NotCalled
    /\ permanentBackups = NilMap
    /\ backupTimes \in GetBackupsResults
    /\ metaFetcher \in [BackupNames -> FetchResults]
    /\ position = "GetBackups"
    /\ index = 0
    /\ found = NotReturned

\* backupTimes, err := GetBackups(...); on an error the empty map is
\* returned, else permanentBackups := map[string]bool{} and the loop starts
GetBackups ==
    /\ position = "GetBackups"
    /\ IF backupTimes.err # ErrNil
          THEN /\ found' = [returned |-> TRUE, map |-> MakeMap(<<>>)]
               /\ position' = "returned"
               /\ UNCHANGED <<permanentBackups, index>>
          ELSE /\ permanentBackups' = MakeMap(<<>>)
               /\ index' = 1
               /\ position' = "range"
               /\ UNCHANGED found
    /\ UNCHANGED <<interpreter, objectName, backupNameLength, isPermanent,
                   backupTimes, metaFetcher>>

\* the loop body with break in the place of continue
FetchMetaBreaking ==
    /\ position = "range"
    /\ index <= Len(backupTimes.list)
    /\ LET name == backupTimes.list[index]
           meta == metaFetcher[name]
       IN  IF meta.err # ErrNil
              THEN /\ index' = Len(backupTimes.list) + 1
                   /\ UNCHANGED permanentBackups
              ELSE /\ index' = index + 1
                   /\ permanentBackups' =
                         IF meta.IsPermanent
                            THEN MakeMap(Put(permanentBackups.m, name, TRUE))
                            ELSE permanentBackups
    /\ UNCHANGED <<interpreter, objectName, backupNameLength, isPermanent,
                   backupTimes, metaFetcher, position, found>>

\* one pass of the loop body: Fetch; on an error continue; a backup whose
\* meta has IsPermanent set is put in the map
FetchMeta ==
    /\ position = "range"
    /\ index <= Len(backupTimes.list)
    /\ LET name == backupTimes.list[index]
           meta == metaFetcher[name]
       IN  IF meta.err # ErrNil
              THEN /\ index' = index + 1
                   /\ UNCHANGED permanentBackups
              ELSE /\ index' = index + 1
                   /\ permanentBackups' =
                         IF meta.IsPermanent
                            THEN MakeMap(Put(permanentBackups.m, name, TRUE))
                            ELSE permanentBackups
    /\ UNCHANGED <<interpreter, objectName, backupNameLength, isPermanent,
                   backupTimes, metaFetcher, position, found>>

\* return permanentBackups, after the last pass
ReturnPermanentBackups ==
    /\ position = "range"
    /\ index > Len(backupTimes.list)
    /\ found' = [returned |-> TRUE, map |-> permanentBackups]
    /\ position' = "returned"
    /\ UNCHANGED <<interpreter, objectName, backupNameLength, isPermanent,
                   permanentBackups, backupTimes, metaFetcher, index>>

NextFindPermanentBackups ==
    \/ GetBackups
    \/ FetchMeta
    \/ ReturnPermanentBackups

SpecFindPermanentBackups == InitFindPermanentBackups /\ [][NextFindPermanentBackups]_vars

\* ------------------------------------------------------------------------
\* Properties
\* ------------------------------------------------------------------------

Called(w, f) == \E i \in 1..Len(log[w]) : log[w][i] = f

Occurrences(list, n) == Cardinality({ i \in 1..Len(list) : list[i] = n })

\* every regular-file name was passed to Interpret at most once
DistinctNames == \A n \in RegNames : regCalls[n] <= 1

AddPcs ==
    { "addToCompletedFiles", "appendCompletedFiles",
      "addToCreatedPageFiles", "putCreatedPageFiles",
      "addToWrittenIncrementFiles", "putWrittenIncrementFiles" }

\* every AddFileUnwrapResult call has returned
AllRecorded == \A w \in Workers : pc[w] \notin AddPcs

InExactly(r) ==
    LET n == r.name
        t == r.result.FileUnwrapResultType
    IN  /\ Occurrences(completedFiles, n) = (IF t = "Completed" THEN 1 ELSE 0)
        /\ (n \in DOMAIN createdPageFiles) = (t = "CreatedFromIncrement")
        /\ (n \in DOMAIN writtenIncrementFiles) = (t = "WroteIncrementBlocks")
        /\ t = "CreatedFromIncrement" => createdPageFiles[n] = r.result.blockCount
        /\ t = "WroteIncrementBlocks" => writtenIncrementFiles[n] = r.result.blockCount

\* C1: outcomes with pairwise distinct names and non-Skipped kinds, recorded
\* through AddFileUnwrapResult by concurrent writers: once all the calls
\* have returned, every name is in exactly the collection of its kind, once,
\* with its block count
C1_NoLostInsert ==
    (DistinctNames /\ AllRecorded /\ ~Crashed) =>
        \A r \in reported : InExactly(r)

\* two distinct names recorded in the same collection
C1_Witness ==
    /\ DistinctNames /\ AllRecorded /\ ~Crashed
    /\ Cardinality(reported) = 2
    /\ Len(completedFiles) = 2
    /\ \A r \in reported : InExactly(r)

NoNameTwice ==
    /\ \A n \in RegNames : Occurrences(completedFiles, n) <= 1
    /\ \A i \in 1..Len(completedFiles) :
          /\ completedFiles[i] \notin DOMAIN createdPageFiles
          /\ completedFiles[i] \notin DOMAIN writtenIncrementFiles
    /\ (DOMAIN createdPageFiles) \cap (DOMAIN writtenIncrementFiles) = {}

\* C2 as stated: after any sequence of Interpret calls no file name is
\* under more than one outcome, and completedFiles holds no name twice
C2_Original == NoNameTwice

\* C2, amended: after any sequence of Interpret calls that passes every
\* regular-file name at most once, no file name is under more than one
\* outcome, and completedFiles holds no name twice
C2_DisjointOutcomes == DistinctNames => NoNameTwice

\* distinct names recorded under two different outcomes
C2_Witness ==
    /\ DistinctNames /\ AllRecorded
    /\ completedFiles # <<>>
    /\ (DOMAIN createdPageFiles) \cup (DOMAIN writtenIncrementFiles) # {}
    /\ NoNameTwice

\* the entry is a regular file that a present allowlist does not name
FilteredOut(e) ==
    /\ e.Typeflag = TypeReg
    /\ ~FilesToUnwrap.isNil
    /\ e.Name \notin DOMAIN FilesToUnwrap.m

\* the worker returned nil without having called anything
ReturnedUntouched(w) ==
    /\ pc[w] = "done"
    /\ ret[w] = ErrNil
    /\ log[w] = <<>>
    /\ localFile[w] = NoFile
    /\ fileUnwrapper[w] = NoUnwrapper
    /\ unwrapResult[w] = NoResult

\* C3: with an allowlist present, Interpret on a regular-file entry whose
\* name the allowlist lacks returns nil at once: the step changes neither
\* the file system nor the three collections nor a mutex, and the call
\* makes no stat, open, create or mkdir, no getLocalFile and no unwrap
C3_FilteredEntryUntouched ==
    [][ /\ \A w \in Workers : FilteredOut(header'[w]) => ReturnedUntouched(w)'
        /\ \A e \in Entries :
              (FilteredOut(e) /\ regCalls'[e.Name] # regCalls[e.Name]) =>
                  /\ fs' = fs
                  /\ aggregate' = aggregate
                  /\ mutexes' = mutexes
                  /\ reported' = reported
                  /\ \E w \in Workers : header'[w] = e /\ ReturnedUntouched(w)' ]_vars

\* a filtered entry was interpreted
C3_Witness ==
    \E w \in Workers :
        /\ FilteredOut(header[w])
        /\ regCalls[header[w].Name] > 0
        /\ ReturnedUntouched(w)

UnwrapCalled(w) == Called(w, "UnwrapNewFile") \/ Called(w, "UnwrapExistingFile")

\* the call of the worker ran getFileUnwrapper and the Reconciler, and one
\* unwrap call if the Reconciler gave it a file
Processed(w) ==
    /\ Called(w, "getFileUnwrapper")
    /\ Called(w, "getLocalFile")
    /\ localFile[w] # NoFile =>
          Cardinality({ i \in 1..Len(log[w]) :
              log[w][i] \in {"UnwrapNewFile", "UnwrapExistingFile"} }) = 1

\* C4 as stated: with the allowlist nil or empty, every Interpret call on a
\* regular-file entry that returns has been processed, none is skipped
C4_Original ==
    \A w \in Workers :
        ( /\ pc[w] = "done"
          /\ header[w].Typeflag = TypeReg
          /\ (FilesToUnwrap.isNil \/ DOMAIN FilesToUnwrap.m = {}) )
        => Processed(w)

\* C4, amended: with the allowlist nil, every Interpret call on a
\* regular-file entry that returns has run the Reconciler, and exactly one
\* of UnwrapNewFile / UnwrapExistingFile if the Reconciler succeeded; no
\* entry is skipped by the filter
C4_NilAllowlistProcessesAll ==
    \A w \in Workers :
        (pc[w] = "done" /\ header[w].Typeflag = TypeReg /\ FilesToUnwrap.isNil)
        => Processed(w)

\* with a nil allowlist a regular-file entry was unwrapped
C4_Witness ==
    /\ FilesToUnwrap.isNil
    /\ \E w \in Workers :
          /\ pc[w] = "done" /\ header[w].Typeflag = TypeReg
          /\ Processed(w) /\ UnwrapCalled(w) /\ ret[w] = ErrNil

\* getLocalFile returned an error to the worker
ReconcilerFailed(w) ==
    /\ Called(w, "getLocalFile")
    /\ localFile[w] = NoFile
    /\ pc[w] \notin {"openLocalFile", "createLocalFile", "mkdirAll", "openFile", "panic"}

\* the unwrap call returned an error to the worker
UnwrapFailed(w) == UnwrapCalled(w) /\ unwrapError[w] # ErrNil

Failed(w) == ReconcilerFailed(w) \/ UnwrapFailed(w)

Inserts == {"insert completedFiles", "insert createdPageFiles", "insert writtenIncrementFiles"}

Inserted(w) == \E i \in 1..Len(log[w]) : log[w][i] \in Inserts

IsPrefix(a, b) == Len(a) <= Len(b) /\ SubSeq(b, 1, Len(a)) = a

\* C5: a regular-file entry whose processing fails in the Reconciler or in
\* the unwrap call makes Interpret return a non-nil error; the failing call
\* records nothing (the failing step changes no collection, the call never
\* enters AddFileUnwrapResult, and a collection changes only by an insert
\* of a call that did not fail), and what was recorded before is retained
C5_FailureRecordsNothing ==
    [][ /\ \A w \in Workers : Failed(w)' =>
              /\ ~Inserted(w)'
              /\ pc'[w] \notin AddPcs
              /\ pc'[w] = "done" => ret'[w] # ErrNil
              /\ ~Failed(w) => (aggregate' = aggregate /\ reported' = reported)
        /\ aggregate' # aggregate =>
              \E w \in Workers : ~Failed(w)' /\ Inserted(w)' /\ log'[w] # log[w]
        /\ IsPrefix(completedFiles, completedFiles')
        /\ DOMAIN createdPageFiles \subseteq DOMAIN createdPageFiles'
        /\ DOMAIN writtenIncrementFiles \subseteq DOMAIN writtenIncrementFiles' ]_vars

\* an unwrap call failed, its Interpret returned the error, and a file
\* recorded earlier is still recorded
C5_Witness ==
    \E w \in Workers :
        /\ pc[w] = "done"
        /\ UnwrapFailed(w)
        /\ ret[w] # ErrNil
        /\ ~Inserted(w)
        /\ completedFiles # <<>>

\* C6: a handle returned by the Reconciler is synchronized (if fsync is
\* set) and closed, each once, only after the unwrap call has returned and
\* the sync before the close, whether the unwrap call succeeded or failed;
\* Interpret does not return with the handle open
C6_SyncThenCloseOnEveryPath ==
    \A w \in Workers :
        localFile[w] # NoFile =>
            /\ localFile[w].closes <= 1
            /\ localFile[w].syncs <= 1
            /\ localFile[w].open = (localFile[w].closes = 0)
            /\ (localFile[w].closes + localFile[w].syncs > 0) => UnwrapCalled(w)
            /\ localFile[w].closes = 1 =>
                  localFile[w].syncs = (IF fsync THEN 1 ELSE 0)
            /\ ~fsync => localFile[w].syncs = 0
            /\ pc[w] = "done" => localFile[w].closes = 1

\* the unwrap call failed and the handle was synchronized and closed
C6_Witness ==
    \E w \in Workers :
        /\ pc[w] = "done"
        /\ localFile[w] # NoFile
        /\ UnwrapFailed(w)
        /\ fsync
        /\ localFile[w].syncs = 1
        /\ localFile[w].closes = 1
        /\ ~localFile[w].open

\* the mutexes a worker holds
HeldBy(w) ==
    (IF completedFilesMutex = w THEN {"completedFilesMutex"} ELSE {})
    \cup (IF createdPageFilesMutex = w THEN {"createdPageFilesMutex"} ELSE {})
    \cup (IF writtenIncrementFilesMutex = w THEN {"writtenIncrementFilesMutex"} ELSE {})

\* a mutex is held exactly by the worker that is at the insert it guards
HeldOnlyForInsert ==
    \A w \in Workers :
        /\ Cardinality(HeldBy(w)) <= 1
        /\ (completedFilesMutex = w) = (pc[w] = "appendCompletedFiles")
        /\ (createdPageFilesMutex = w) = (pc[w] = "putCreatedPageFiles")
        /\ (writtenIncrementFilesMutex = w) = (pc[w] = "putWrittenIncrementFiles")

\* a worker waits for the mutex of its own collection only, and the holder
\* of a mutex can always go on to release it
NoCommonLock ==
    \A w \in Workers :
        ~Crashed =>
            /\ (pc[w] = "addToCompletedFiles" /\ completedFilesMutex = NoOwner)
                  => ENABLED AddToCompletedFilesLock(w)
            /\ (pc[w] = "addToCreatedPageFiles" /\ createdPageFilesMutex = NoOwner)
                  => ENABLED AddToCreatedPageFilesLock(w)
            /\ (pc[w] = "addToWrittenIncrementFiles" /\ writtenIncrementFilesMutex = NoOwner)
                  => ENABLED AddToWrittenIncrementFilesLock(w)
            /\ pc[w] = "appendCompletedFiles" => ENABLED AddToCompletedFilesUnlock(w)
            /\ pc[w] = "putCreatedPageFiles" => ENABLED AddToCreatedPageFilesUnlock(w)
            /\ pc[w] = "putWrittenIncrementFiles"
                  => ENABLED AddToWrittenIncrementFilesUnlock(w)

\* C7: a collection changes only by the single insert of the worker that
\* holds the mutex of that collection, in a step that releases the mutex
\* and touches neither another collection nor the file system; no worker
\* holds two mutexes or keeps one past the insert; a worker waits only for
\* the mutex of its own collection, whose holder can always release it
C7_OwnMutexPerCollection ==
    [][ /\ HeldOnlyForInsert'
        /\ NoCommonLock'
        /\ completedFiles' # completedFiles =>
              \E w \in Workers :
                  /\ completedFilesMutex = w /\ completedFilesMutex' = NoOwner
                  /\ completedFiles' = Append(completedFiles, header[w].Name)
                  /\ UNCHANGED <<createdPageFiles, writtenIncrementFiles, fs>>
        /\ createdPageFiles' # createdPageFiles =>
              \E w \in Workers :
                  /\ createdPageFilesMutex = w /\ createdPageFilesMutex' = NoOwner
                  /\ createdPageFiles' =
                        Put(createdPageFiles, header[w].Name, unwrapResult[w].blockCount)
                  /\ UNCHANGED <<completedFiles, writtenIncrementFiles, fs>>
        /\ writtenIncrementFiles' # writtenIncrementFiles =>
              \E w \in Workers :
                  /\ writtenIncrementFilesMutex = w /\ writtenIncrementFilesMutex' = NoOwner
                  /\ writtenIncrementFiles' =
                        Put(writtenIncrementFiles, header[w].Name, unwrapResult[w].blockCount)
                  /\ UNCHANGED <<completedFiles, createdPageFiles, fs>> ]_vars

\* two workers hold the mutexes of two different collections at once
C7_Witness ==
    \E w, v \in Workers :
        /\ w # v
        /\ completedFilesMutex = w
        /\ createdPageFilesMutex = v
        /\ HeldOnlyForInsert

\* the worker takes the step of the stat probe of getLocalFile
ReconcilerProbes(w) == pc[w] = "getLocalFile" /\ pc'[w] # "getLocalFile"

\* the worker takes the step of the open or the create, and getLocalFile
\* returns
ReconcilerReturns(w) ==
    /\ header[w].Typeflag = TypeReg
    /\ pc[w] \in {"openLocalFile", "createLocalFile", "mkdirAll", "openFile"}
    /\ pc'[w] \notin {"openLocalFile", "createLocalFile", "mkdirAll", "openFile"}

IsDirectory(f, p) == Stat(f, p).err = ErrNil /\ Stat(f, p).info.kind = "dir"
IsRegularFile(f, p) == Stat(f, p).err = ErrNil /\ Stat(f, p).info.kind = "file"
NothingAt(f, p) == IsNotExist(Stat(f, p).err)

\* C8: when the stat probe of the Reconciler finds a directory at the
\* target path, the Reconciler fails there with the error of the probe
\* ("requested file is directory") and goes on neither to the new-file
\* branch (no mkdir, no create) nor to the existing-file branch (no open)
C8_DirectoryTargetRejected ==
    [][ \A w \in Workers :
          (ReconcilerProbes(w) /\ IsDirectory(fs, targetPath(w))) =>
              /\ pc'[w] = "done"
              /\ ret'[w] = "requested file is directory"
              /\ pc'[w] \notin {"openLocalFile", "createLocalFile"} ]_vars

\* C9: the Reconciler reports isNewFile = false exactly when a regular file
\* is at the target path, and then opens it leaving the file system as it
\* is; it reports isNewFile = true exactly when nothing is at the target
\* path, and then, on success, the ancestors of the target path are
\* directories and an empty file is at the target path
C9_IsNewFileExact ==
    [][ \A w \in Workers :
          ReconcilerReturns(w) =>
              /\ (~isNewFile'[w]) = IsRegularFile(fs, targetPath(w))
              /\ IsRegularFile(fs, targetPath(w)) => (fs' = fs /\ Called(w, "open")')
              /\ isNewFile'[w] = NothingAt(fs, targetPath(w))
              /\ (NothingAt(fs, targetPath(w)) /\ localFile'[w] # NoFile) =>
                    /\ AncestorErr(fs', targetPath(w)) = ErrNil
                    /\ IsRegularFile(fs', targetPath(w))
                    /\ fs'[targetPath(w)].data = <<>> ]_vars

\* C10: a handle the Reconciler returns is open for reading and writing
C10_HandleReadWrite ==
    \A w \in Workers : localFile[w] # NoFile => localFile[w].flag = "O_RDWR"

\* the header of the regular-file entry of a name
RegEntry(n) == CHOOSE e \in Entries : e.Typeflag = TypeReg /\ e.Name = n

\* what the extraction of a regular-file entry gives when it runs alone on
\* the file system f0: the outcome and the data of the file
Alone(f0, n) ==
    LET hdr == RegEntry(n)
        t == Join(DBDataDirectory, n)
        opts == [kind |-> "any",
                 isIncremented |-> n \in DOMAIN FilesMetadataFiles
                                      /\ FilesMetadataFiles[n].IsIncremented,
                 isPageFile |-> FALSE]
    IN  IF IsRegularFile(f0, t)
            THEN UnwrapExistingFile(opts, hdr, f0[t].data)
            ELSE UnwrapNewFile(opts, hdr)

\* the Interpret calls so far were for regular-file entries of pairwise
\* distinct names
OnlyDistinctRegular ==
    /\ DistinctNames
    /\ Cardinality({ n \in RegNames : regCalls[n] = 1 }) = calls

Quiescent == \A w \in Workers : pc[w] \in {"idle", "done"}

NamesOf(type) == { r.name : r \in { x \in reported : x.result.FileUnwrapResultType = type } }

\* the two maps hold what the outcomes of the files alone give
MapsOfAlone ==
    /\ DOMAIN createdPageFiles = NamesOf("CreatedFromIncrement")
    /\ DOMAIN writtenIncrementFiles = NamesOf("WroteIncrementBlocks")
    /\ \A n \in DOMAIN createdPageFiles : createdPageFiles[n] = Alone(fs0, n).result.blockCount
    /\ \A n \in DOMAIN writtenIncrementFiles :
          writtenIncrementFiles[n] = Alone(fs0, n).result.blockCount

\* the three collections hold what the outcomes of the files alone give,
\* completedFiles each completed name once, in whatever order
CollectionsOfAlone ==
    /\ { completedFiles[i] : i \in 1..Len(completedFiles) } = NamesOf("Completed")
    /\ Len(completedFiles) = Cardinality(NamesOf("Completed"))
    /\ MapsOfAlone

\* each reported outcome (kind, block count, data written) is the one the
\* file has when processed alone on the file system the run started with,
\* and a call that has returned without a failed unwrap returned nil with
\* that outcome
OutcomesOfAlone ==
    /\ \A r \in reported :
          /\ r.result = Alone(fs0, r.name).result
          /\ Join(DBDataDirectory, r.name) \in DOMAIN fs
          /\ fs[Join(DBDataDirectory, r.name)].data = Alone(fs0, r.name).data
    /\ \A w \in Workers :
          ( /\ pc[w] = "done" /\ header[w].Typeflag = TypeReg
            /\ ~SkippedByFilter(FilesToUnwrap, header[w].Name)
            /\ unwrapError[w] = ErrNil )
          => /\ ret[w] = ErrNil
             /\ [name |-> header[w].Name, result |-> Alone(fs0, header[w].Name).result]
                   \in reported

\* the regular-file names passed to Interpret so far
NamesInterpreted == { n \in RegNames : regCalls[n] > 0 }

\* the orders a set of names can be processed in
OrdersOf(S) ==
    { o \in [1..Cardinality(S) -> S] : \A i, j \in DOMAIN o : i # j => o[i] # o[j] }

IsCompletedAlone(n) == Alone(fs0, n).result.FileUnwrapResultType = "Completed"

\* the completed-files list that processing the names one after the other
\* in the order o gives: addToCompletedFiles appends
CompletedInOrder(o) == SelectSeq(o, IsCompletedAlone)

\* C11 as stated: for accepted regular-file entries of distinct names, each
\* file has the outcome it has alone, and once the calls have returned the
\* three collections hold the contents that processing the names one after
\* the other gives, the same in every order of the names
C11_Original ==
    OnlyDistinctRegular =>
        /\ OutcomesOfAlone
        /\ Quiescent =>
              /\ MapsOfAlone
              /\ \A o \in OrdersOf(NamesInterpreted \cap { r.name : r \in reported }) :
                    completedFiles = CompletedInOrder(o)

\* no regular-file name passed to Interpret lies under another one: none
\* is a path prefix of another
NoNameUnderAnother ==
    \A n, m \in NamesInterpreted : n # m => ~IsPrefix(n, m)

\* C11: for accepted regular-file entries of distinct names none of which
\* lies under another, processed one after the other in either order or
\* concurrently, the outcome of each file (kind, block count, data written)
\* is the one it has when processed alone on the file system the run
\* started with, a call whose unwrap did not fail returns nil with that
\* outcome, and once the calls have returned the two maps hold exactly
\* these outcomes and completedFiles holds the completed names, each once
C11_OutcomesCommute ==
    (OnlyDistinctRegular /\ NoNameUnderAnother) =>
        /\ OutcomesOfAlone
        /\ Quiescent => CollectionsOfAlone

\* two workers have extracted one full file each, g and base/x, and both
\* have returned: the list holds the two names, base/x first
C11_Witness ==
    /\ OnlyDistinctRegular /\ NoNameUnderAnother /\ ~Crashed /\ Quiescent
    /\ \E w, v \in Workers :
          /\ header[w].Name = <<"g">> /\ header[v].Name = <<"base", "x">>
          /\ ret[w] = ErrNil /\ ret[v] = ErrNil
    /\ completedFiles = << <<"base", "x">>, <<"g">> >>
    /\ CollectionsOfAlone

\* the set a map[string]bool stands for: the keys it maps to true
SetOf(map) == IF map.isNil THEN {} ELSE { k \in DOMAIN map.m : map.m[k] }

\* name is prefix, then a backup name of the given length that is in the
\* set, then anything
NamesPermanentBackup(name, set, length) ==
    \E backup \in set :
        /\ Len(backup) = length
        /\ Len(name) >= Len(BaseBackupPath) + length
        /\ SubSeq(name, 1, Len(BaseBackupPath) + length) = BaseBackupPath \o backup

\* C12: IsPermanent returns true exactly when the object name is the
\* base-backup prefix followed by backupNameLength characters that form a
\* name of the permanent set (and by anything after them); for every other
\* name, shorter ones and WAL paths included, it returns false, and it
\* never fails with an out-of-range slice
C12_IsPermanentExact ==
    isPermanent.called =>
        /\ ~isPermanent.panics
        /\ isPermanent.value =
              NamesPermanentBackup(objectName, SetOf(permanentBackups), backupNameLength)

\* a path under a permanent backup is classified permanent
C12_Witness ==
    /\ isPermanent.called /\ isPermanent.value
    /\ objectName = <<"b", "/", "A", "/">>
    /\ backupNameLength = 1
    /\ <<"A">> \in SetOf(permanentBackups)

Listed == { backupTimes.list[i] : i \in 1..Len(backupTimes.list) }

\* the listed backups whose fetch succeeds with IsPermanent set
FetchedPermanent ==
    { b \in Listed : metaFetcher[b].err = ErrNil /\ metaFetcher[b].IsPermanent }

\* C13: FindPermanentBackups returns the map that holds exactly the listed
\* backup names whose fetch succeeds and whose meta has IsPermanent set,
\* each as true; a fetch that fails leaves out that backup alone, whatever
\* precedes or follows it in the listing; when the listing fails the map
\* returned is empty and not nil
C13_FindPermanentBackupsExact ==
    found.returned =>
        /\ ~found.map.isNil
        /\ DOMAIN found.map.m =
              (IF backupTimes.err # ErrNil THEN {} ELSE FetchedPermanent)
        /\ \A b \in DOMAIN found.map.m : found.map.m[b]

\* the fetch of the first listed backup failed and the permanent backup
\* listed after it was found
C13_Witness ==
    /\ found.returned
    /\ Len(backupTimes.list) = 2
    /\ metaFetcher[backupTimes.list[1]].err # ErrNil
    /\ found.map = MakeMap(Put(<<>>, backupTimes.list[2], TRUE))

\* C14: Interpret on a directory entry whose target directory exists
\* returns nil and changes nothing of the file system but the mode of that
\* directory, which becomes the mode recorded in the entry: os.MkdirAll
\* leaves the file system as it is, and os.Chmod changes the mode of the
\* directory only, to the mode of the entry; applied to a directory that
\* has that mode already it leaves the file system as it is
C14_DirectoryEntryIdempotent ==
    [][ /\ \A w \in Workers, e \in Entries :
              (InterpretDir(w, e) /\ IsDirectory(fs, Join(DBDataDirectory, e.Name))) =>
                  (fs' = fs /\ pc'[w] = "chmod")
        /\ \A w \in Workers :
              (InterpretDirChmod(w) /\ IsDirectory(fs, targetPath(w))) =>
                  /\ ret'[w] = ErrNil
                  /\ fs' = [fs EXCEPT ![targetPath(w)].mode = header[w].Mode]
                  /\ fs[targetPath(w)].mode = header[w].Mode => fs' = fs ]_vars

\* C15: Interpret on a hard-link entry links the target path (the data
\* directory joined with the entry name) to the file that the entry name
\* itself, relative to the working directory, leads to, and returns nil;
\* when that source does not exist or something is at the target path it
\* returns an error and leaves the file system as it is
C15_HardLinkFromEntryName ==
    [][ \A w \in Workers, e \in Entries :
          InterpretLink(w, e) =>
              LET source == e.Name
                  target == Join(DBDataDirectory, e.Name)
              IN  /\ (NothingAt(fs, source) \/ target \in DOMAIN fs) =>
                        (ret'[w] # ErrNil /\ fs' = fs)
                  /\ (IsRegularFile(fs, source) /\ NothingAt(fs, target)
                        /\ AncestorErr(fs, target) = ErrNil) =>
                        (ret'[w] = ErrNil /\ fs' = Put(fs, target, fs[source]))
                  /\ ret'[w] # ErrNil => fs' = fs ]_vars

\* the link data/h to the file h was made, and the entry applied again
\* failed on the existing target
C15_Witness ==
    \E w \in Workers :
        /\ pc[w] = "done"
        /\ header[w].Typeflag = TypeLink
        /\ ret[w] = "EEXIST"
        /\ fs[<<"data", "h">>] = fs[<<"h">>]

\* the catalog describes the name as incremented
DescribedIncremented(n) ==
    n \in DOMAIN FilesMetadataFiles /\ FilesMetadataFiles[n].IsIncremented

\* C16: the unwrapper getFileUnwrapper returns for an accepted
\* regular-file entry is the Catchup one exactly when
\* createNewIncrementalFiles is set and the Default one otherwise; its
\* isIncremented is true exactly when the catalog has a description of the
\* entry name with IsIncremented set; its isPageFile is false when no
\* regular file is at the target path
C16_UnwrapperChoice ==
    [][ \A w \in Workers :
          (GetFileUnwrapper(w) /\ pc'[w] # "panic") =>
              /\ fileUnwrapper'[w].kind =
                    (IF createNewIncrementalFiles THEN "Catchup" ELSE "Default")
              /\ fileUnwrapper'[w].isIncremented = DescribedIncremented(header[w].Name)
              /\ ~IsRegularFile(fs, targetPath(w)) => ~fileUnwrapper'[w].isPageFile ]_vars

\* in catchup mode the entry base/x, which the catalog does not describe,
\* got the Catchup unwrapper, not incremented, no page file
C16_Witness ==
    \E w \in Workers :
        /\ createNewIncrementalFiles
        /\ header[w].Name = <<"base", "x">>
        /\ ~DescribedIncremented(header[w].Name)
        /\ fileUnwrapper[w] =
              [kind |-> "Catchup", isIncremented |-> FALSE, isPageFile |-> FALSE]

\* C17: whatever the stat probe of the target path gives, the call of
\* getLocalFileInfo returns: no worker dereferences a missing file info and
\* crashes the run in getFileUnwrapper or in getLocalFile
C17_StatProbeNeverCrashes ==
    \A w \in Workers :
        (Called(w, "getFileUnwrapper") \/ Called(w, "getLocalFile")) => pc[w] # "panic"

\* the allowlist has the name of the worker's regular-file entry as a key
KeyPresent(w) ==
    /\ header[w].Typeflag = TypeReg
    /\ ~FilesToUnwrap.isNil
    /\ header[w].Name \in DOMAIN FilesToUnwrap.m

\* C18: a regular-file entry whose name is a key of FilesToUnwrap is
\* processed whatever boolean is stored for it, false included: the call
\* goes on to getFileUnwrapper and the Reconciler, and to one unwrap call
\* if the Reconciler gave it a file
C18_KeyPresenceDecides ==
    \A w \in Workers :
        KeyPresent(w) =>
            /\ pc[w] = "getFileUnwrapper" \/ Called(w, "getFileUnwrapper")
            /\ pc[w] = "done" => Processed(w)

\* the entry g, stored with the flag false, was unwrapped
C18_Witness ==
    \E w \in Workers :
        /\ KeyPresent(w)
        /\ ~FilesToUnwrap.m[header[w].Name]
        /\ pc[w] = "done"
        /\ Processed(w) /\ UnwrapCalled(w)
        /\ ret[w] = ErrNil

\* getLocalFile has returned to unwrapRegularFile: its probe was made and
\* the open or the create it chose has been attempted
ReconcilerReturned(w) ==
    /\ Called(w, "getLocalFile")
    /\ pc[w] \notin {"openLocalFile", "createLocalFile", "mkdirAll", "openFile", "panic"}

\* what the two probes of one extraction saw: getFileUnwrapper asks
\* isPagedFile exactly when its probe gave a file info, getLocalFile
\* returns isNewFile = false exactly when its probe gave one
FirstProbeSawFile(w) == Called(w, "isPagedFile")
SecondProbeSawFile(w) == ~isNewFile[w]

\* C19: in one extraction, once getLocalFile has returned, the probe of
\* getFileUnwrapper and the probe of getLocalFile have seen the same thing,
\* a regular file at the target path or none, whatever the other workers
\* did in between; UnwrapNewFile is not called with isPageFile set, and
\* with isPageFile set the call made is UnwrapExistingFile
C19_ProbesAgree ==
    \A w \in Workers :
        ReconcilerReturned(w) =>
            /\ FirstProbeSawFile(w) = SecondProbeSawFile(w)
            /\ Called(w, "UnwrapNewFile") => ~fileUnwrapper[w].isPageFile
            /\ (fileUnwrapper[w].isPageFile /\ UnwrapCalled(w)) =>
                  Called(w, "UnwrapExistingFile")

\* the entries whose type the switch of Interpret has no case for
OtherEntries ==
    { e \in Entries : e.Typeflag \notin {TypeReg, TypeDir, TypeLink, TypeSymlink} }

\* C20: Interpret on an entry that is neither a regular file nor a
\* directory, a hard link or a symbolic link returns nil having called
\* nothing, and its step leaves the file system, the three collections
\* and the mutexes exactly as they were
C20_OtherTypeChangesNothing ==
    [][ /\ \A w \in Workers : header'[w] \in OtherEntries => ReturnedUntouched(w)'
        /\ \A w \in Workers, e \in OtherEntries :
              InterpretOther(w, e) =>
                  /\ ret'[w] = ErrNil
                  /\ fs' = fs
                  /\ aggregate' = aggregate
                  /\ mutexes' = mutexes
                  /\ reported' = reported ]_vars

\* a FIFO entry was interpreted after a file had been recorded: nothing
\* is at its target path and the record is still there
C20_Witness ==
    \E w \in Workers :
        /\ header[w] \in OtherEntries
        /\ ReturnedUntouched(w)
        /\ Join(DBDataDirectory, header[w].Name) \notin DOMAIN fs
        /\ completedFiles # <<>>

====
